---- MODULE Spec2Model ----
(***************************************************************************)
(* Meeting-minutes pipeline: MeetingSummarizer (src/summarizer.py),        *)
(* AudioProcessor (src/audio_processor.py), Transcriber                    *)
(* (src/transcriber.py) and process_meeting (src/app.py).                  *)
(*                                                                         *)
(* Text is a sequence of tokens.  A token is one character of the text     *)
(* (" ", "\n", "-", "1", "a", ...) or an atomic run of characters that no  *)
(* operation of the code looks inside (a prompt marker such as             *)
(* "Key Decisions:", a canned sentence).                                   *)
(***************************************************************************)
EXTENDS Integers, Sequences, FiniteSets, TLC

\* ------------------------------------------------------------------ bounds
\* Largest number of lines in a backend completion (the cap of 5 is exceeded).
MaxLines == 6
\* Transcripts reach MaxMinutes * WordsPerMinute + 1 words.
MaxMinutes == 3
\* Concurrent process_meeting requests.
NumRequests == 2
\* Longest list of format identifiers handed to generate_outputs.
MaxFormats == 3
\* Most words in a reference or a hypothesis given to the Evaluator.
MaxWords == 3

\* ------------------------------------------------------- program constants
WordsPerMinute == 150
ListCap == 5
SummaryPromptChars == 2000
ExtractPromptChars == 1500

\* --------------------------------------------------------- string helpers
Whitespace == {" ", "\n"}
DigitChars == {"0", "1", "2", "3", "4", "5", "6", "7", "8", "9"}
\* The characters of '•-*'; the token "(bullet)" stands for U+2022.
BulletChars == {"(bullet)", "-", "*"}

MaxOf(S) == CHOOSE x \in S : \A y \in S : y <= x
MinOf(S) == CHOOSE x \in S : \A y \in S : x <= y

\* s[:n]
Take(s, n) == SubSeq(s, 1, IF n < Len(s) THEN n ELSE Len(s))

\* s.lstrip(chars) and s.rstrip(chars)
RECURSIVE LStrip(_, _)
LStrip(s, chars) ==
    IF s = <<>> \/ Head(s) \notin chars THEN s ELSE LStrip(Tail(s), chars)

RECURSIVE RStrip(_, _)
RStrip(s, chars) ==
    IF s = <<>> \/ s[Len(s)] \notin chars THEN s
    ELSE RStrip(SubSeq(s, 1, Len(s) - 1), chars)

\* s.strip()
Strip(s) == RStrip(LStrip(s, Whitespace), Whitespace)

\* s.split(sep)[-1]: the text after the last occurrence of sep
AfterLast(s, sep) ==
    LET at == {i \in 1..Len(s) : s[i] = sep}
    IN  IF at = {} THEN s ELSE SubSeq(s, MaxOf(at) + 1, Len(s))

\* s.split(sep): the pieces between the occurrences of sep, in order
RECURSIVE SplitOn(_, _)
SplitOn(s, sep) ==
    LET at == {i \in 1..Len(s) : s[i] = sep}
    IN  IF at = {} THEN <<s>>
        ELSE <<SubSeq(s, 1, MinOf(at) - 1)>>
             \o SplitOn(SubSeq(s, MinOf(at) + 1, Len(s)), sep)

\* s.isdigit()
IsDigit(s) == Len(s) > 0 /\ \A i \in 1..Len(s) : s[i] \in DigitChars

\* len(s.split()): the number of whitespace-separated words
WordCount(s) ==
    Cardinality({i \in 1..Len(s) :
                    /\ s[i] \notin Whitespace
                    /\ (i = 1 \/ s[i - 1] \in Whitespace)})

\* [f(x) for x in s]
RECURSIVE MapStrip(_)
MapStrip(s) == IF s = <<>> THEN <<>> ELSE <<Strip(Head(s))>> \o MapStrip(Tail(s))

\* sep.join(lines)
RECURSIVE Join(_, _)
Join(lines, sep) ==
    IF lines = <<>> THEN <<>>
    ELSE IF Len(lines) = 1 THEN lines[1]
    ELSE lines[1] \o <<sep>> \o Join(Tail(lines), sep)

\* ------------------------------------------------------------ meeting_data
\* A dict is a record of its values together with the set `has` of the keys
\* that are present; d.get(k, default) reads through Get.
Get(d, k, default) == IF k \in d.has THEN d[k] ELSE default

\* The value stored under 'transcript': a mapping (with or without 'text')
\* or a value that is no mapping (None).
TranscriptDict(text) == [mapping |-> TRUE, has |-> {"text"}, text |-> text]
EmptyDict == [mapping |-> TRUE, has |-> {}, text |-> <<>>]
NoneValue == [mapping |-> FALSE, has |-> {}, text |-> <<>>]

\* ------------------------------------------------------- MeetingSummarizer
Fields == <<"summary", "key_decisions", "action_items", "next_steps">>

\* __init__, before _load_model runs
NewSummarizer ==
    [model |-> "None", tokenizer |-> "None", pipeline |-> "None",
     meetingbank_dataset |-> "None"]

\* What the three loading calls of _load_model can do
LoadOutcomes == {"loaded", "tokenizer_fails", "model_fails", "pipeline_fails"}

\* _load_model: the assignments made before the failing call stay; the
\* except clause then overwrites model with "demo_mode".
_load_model(self, outcome) ==
    CASE outcome = "tokenizer_fails" ->
           [self EXCEPT !.model = "demo_mode"]
      [] outcome = "model_fails" ->
           [self EXCEPT !.tokenizer = "tokenizer", !.model = "demo_mode"]
      [] outcome = "pipeline_fails" ->
           [self EXCEPT !.tokenizer = "tokenizer", !.model = "demo_mode"]
      [] OTHER ->
           [self EXCEPT !.tokenizer = "tokenizer", !.model = "llm",
                        !.pipeline = "pipeline"]


\* _load_dataset: the dataset, or None when load_dataset raises
DatasetOutcomes == {"loaded", "fails"}
_load_dataset(self, outcome) ==
    [self EXCEPT !.meetingbank_dataset = IF outcome = "loaded" THEN "dataset" ELSE "None"]

\* The demo test written against the constructor's initial value of model
UseDemoWhenUnset(self) == self.model = "None"

\* The test of generate_minutes that selects the demo path
UseDemo(self) == self.model = "demo_mode" \/ self.pipeline = "None"

\* The outcome of one call of self.pipeline(...): it raises, or it returns
\* generated_text = prompt + completion.
Fail == [ok |-> FALSE, text |-> <<>>]
Ok(completion) == [ok |-> TRUE, text |-> completion]

SummaryPrompt(transcript, max_length) ==
    <<"Please analyze the following meeting transcript and provide a concise summary in",
      ToString(max_length), "words or less.", "\n", "Transcript:", "\n">>
    \o Take(transcript, SummaryPromptChars)
    \o <<" ", "# Limit input length", "\n", "Summary:">>

DecisionsPrompt(transcript) ==
    <<"Analyze this meeting transcript and extract the key decisions that were made.",
      "\n", "Transcript:", "\n">>
    \o Take(transcript, ExtractPromptChars) \o <<"\n", "Key Decisions:">>

ActionItemsPrompt(transcript) ==
    <<"Analyze this meeting transcript and extract action items with assignees and due dates.",
      "\n", "Transcript:", "\n">>
    \o Take(transcript, ExtractPromptChars) \o <<"\n", "Action Items:">>

NextStepsPrompt(transcript) ==
    <<"Based on this meeting transcript, what are the logical next steps and follow-up actions?",
      "\n", "Transcript:", "\n">>
    \o Take(transcript, ExtractPromptChars) \o <<"\n", "Next Steps:">>


\* A demo summary cut down to max_length words
GenerateDemoSummaryCapped(transcript, max_length) ==
    IF max_length < 500
    THEN <<"The team meeting covered three main areas: marketing campaign progress, (...)">>
    ELSE <<"The team meeting covered three main areas: marketing campaign progress, budget analysis, and technical status updates. (...)">>

\* ---- demo fallbacks
_generate_demo_summary(transcript, max_length) ==
    <<"The team meeting covered three main areas: marketing campaign progress, budget analysis, and technical status updates. (...)">>

_extract_demo_decisions(transcript) ==
    << <<"Allocate extra budget funds to user testing">>,
       <<"Proceed with campaign launch by end of next week">> >>

_extract_demo_action_items(transcript) ==
    << [task |-> <<"Finalize campaign launch preparations">>, assignee |-> <<"John">>,
        due_date |-> <<"End of next week">>, priority |-> <<"High">>],
       [task |-> <<"Prepare budget reallocation proposal">>, assignee |-> <<"Jane">>,
        due_date |-> <<"Next meeting">>, priority |-> <<"Medium">>] >>

_extract_demo_next_steps(transcript) ==
    << <<"Review budget reallocation proposal in next meeting">>,
       <<"Monitor campaign launch progress">>,
       <<"Schedule user testing sessions">> >>

\* ---- LLM extractions; out is the outcome of the pipeline call
_generate_llm_summary(transcript, max_length, out) ==
    IF out.ok
    THEN Strip(AfterLast(SummaryPrompt(transcript, max_length) \o out.text, "Summary:"))
    ELSE _generate_demo_summary(transcript, max_length)


\* The decisions without the [:5] slice
ExtractLlmDecisionsUncapped(transcript, out) ==
    IF out.ok
    THEN LET decisions_text ==
                 Strip(AfterLast(DecisionsPrompt(transcript) \o out.text, "Key Decisions:"))
             Kept(d) == Strip(d) # <<>> /\ ~IsDigit(Strip(d))
         IN  MapStrip(SelectSeq(SplitOn(decisions_text, "\n"), Kept))
    ELSE _extract_demo_decisions(transcript)

\* The decisions with the [:5] slice taken before the lines are filtered
ExtractLlmDecisionsSlicingFirst(transcript, out) ==
    IF out.ok
    THEN LET decisions_text ==
                 Strip(AfterLast(DecisionsPrompt(transcript) \o out.text, "Key Decisions:"))
             Kept(d) == Strip(d) # <<>> /\ ~IsDigit(Strip(d))
         IN  MapStrip(SelectSeq(Take(SplitOn(decisions_text, "\n"), ListCap), Kept))
    ELSE _extract_demo_decisions(transcript)

_extract_llm_decisions(transcript, out) ==
    IF out.ok
    THEN LET decisions_text ==
                 Strip(AfterLast(DecisionsPrompt(transcript) \o out.text, "Key Decisions:"))
             Kept(d) == Strip(d) # <<>> /\ ~IsDigit(Strip(d))
             decisions == MapStrip(SelectSeq(SplitOn(decisions_text, "\n"), Kept))
         IN  Take(decisions, ListCap)
    ELSE _extract_demo_decisions(transcript)

ActionItem(line) ==
    LET parts == MapStrip(SplitOn(line, "-"))
    IN  [task |-> parts[1],
         assignee |-> IF Len(parts) > 1 THEN parts[2] ELSE <<"Unassigned">>,
         due_date |-> IF Len(parts) > 2 THEN parts[3] ELSE <<"TBD">>,
         priority |-> IF Len(parts) > 3 THEN parts[4] ELSE <<"Medium">>]

RECURSIVE MapActionItem(_)
MapActionItem(lines) ==
    IF lines = <<>> THEN <<>>
    ELSE <<ActionItem(Head(lines))>> \o MapActionItem(Tail(lines))

_extract_llm_action_items(transcript, out) ==
    IF out.ok
    THEN LET items_text ==
                 Strip(AfterLast(ActionItemsPrompt(transcript) \o out.text, "Action Items:"))
             Parsed(line) ==
                 /\ \E i \in 1..Len(line) : line[i] = "-"
                 /\ Strip(line) # <<>>
                 /\ Len(SplitOn(line, "-")) >= 2
         IN  MapActionItem(SelectSeq(Take(SplitOn(items_text, "\n"), ListCap), Parsed))
    ELSE _extract_demo_action_items(transcript)

\* The lines trimmed, their bullets left in place
MapStripOnly(lines) == MapStrip(lines)

RECURSIVE MapUnbullet(_)
MapUnbullet(lines) ==
    IF lines = <<>> THEN <<>>
    ELSE <<LStrip(Strip(Head(lines)), BulletChars)>> \o MapUnbullet(Tail(lines))

_extract_llm_next_steps(transcript, out) ==
    IF out.ok
    THEN LET steps_text ==
                 Strip(AfterLast(NextStepsPrompt(transcript) \o out.text, "Next Steps:"))
             NonBlank(s) == Strip(s) # <<>>
             next_steps == MapUnbullet(SelectSeq(SplitOn(steps_text, "\n"), NonBlank))
         IN  Take(next_steps, ListCap)
    ELSE _extract_demo_next_steps(transcript)


\* The duration rounded to the nearest minute instead of down
EstimateDurationRounded(transcript) ==
    LET word_count == WordCount(transcript)
        duration_minutes ==
            MaxOf({1, (word_count + WordsPerMinute \div 2) \div WordsPerMinute})
    IN  ToString(duration_minutes) \o " minutes"

\* _estimate_duration
_estimate_duration(transcript) ==
    LET word_count == WordCount(transcript)
        duration_minutes == MaxOf({1, word_count \div WordsPerMinute})
    IN  ToString(duration_minutes) \o " minutes"

\* meeting_data.get('transcript', {}).get('text', ''): an AttributeError
\* when the value under 'transcript' is no mapping
TranscriptReadable(meeting_data) == Get(meeting_data, "transcript", EmptyDict).mapping
TranscriptText(meeting_data) ==
    Get(Get(meeting_data, "transcript", EmptyDict), "text", <<>>)

MeetingInfo(meeting_data, transcript) ==
    [title |-> Get(meeting_data, "title", "Meeting"),
     date |-> Get(meeting_data, "date", ""),
     participants |-> Get(meeting_data, "participants", <<>>),
     duration |-> _estimate_duration(transcript)]

\* What a call hands back: a minutes record, or the exception it raised
Returned(minutes) == [status |-> "returned", minutes |-> minutes]
Raised == [status |-> "raised", minutes |-> <<>>]
NoResult == [status |-> "none", minutes |-> <<>>]

_generate_demo_minutes(meeting_data, max_length) ==
    IF ~TranscriptReadable(meeting_data) THEN Raised
    ELSE LET transcript == TranscriptText(meeting_data)
         IN  Returned([meeting_info |-> MeetingInfo(meeting_data, transcript),
                       summary |-> _generate_demo_summary(transcript, max_length),
                       key_decisions |-> _extract_demo_decisions(transcript),
                       action_items |-> _extract_demo_action_items(transcript),
                       next_steps |-> _extract_demo_next_steps(transcript),
                       full_transcript |-> transcript])


\* The LLM record with the next_steps entry left out
LlmMinutesWithoutNextSteps(meeting_data, max_length, outs) ==
    LET transcript == TranscriptText(meeting_data)
    IN  [meeting_info |-> MeetingInfo(meeting_data, transcript),
         summary |-> _generate_llm_summary(transcript, max_length, outs["summary"]),
         key_decisions |-> _extract_llm_decisions(transcript, outs["key_decisions"]),
         action_items |-> _extract_llm_action_items(transcript, outs["action_items"]),
         full_transcript |-> transcript]

\* The record built on the LLM path from the outcomes of the four pipeline calls
LlmMinutes(meeting_data, max_length, outs) ==
    LET transcript == TranscriptText(meeting_data)
    IN  [meeting_info |-> MeetingInfo(meeting_data, transcript),
         summary |-> _generate_llm_summary(transcript, max_length, outs["summary"]),
         key_decisions |-> _extract_llm_decisions(transcript, outs["key_decisions"]),
         action_items |-> _extract_llm_action_items(transcript, outs["action_items"]),
         next_steps |-> _extract_llm_next_steps(transcript, outs["next_steps"]),
         full_transcript |-> transcript]


\* generate_minutes with no except clause around the pipeline calls
GenerateMinutesUnguarded(self, meeting_data, max_length, outs) ==
    IF ~TranscriptReadable(meeting_data) THEN Raised
    ELSE IF UseDemo(self) THEN _generate_demo_minutes(meeting_data, max_length)
    ELSE IF \E f \in DOMAIN outs : ~outs[f].ok THEN Raised
    ELSE Returned(LlmMinutes(meeting_data, max_length, outs))

\* generate_minutes, given the outcomes of the pipeline calls it makes
generate_minutes(self, meeting_data, max_length, outs) ==
    IF ~TranscriptReadable(meeting_data)
    THEN _generate_demo_minutes(meeting_data, max_length)   \* the except clause
    ELSE IF UseDemo(self)
    THEN _generate_demo_minutes(meeting_data, max_length)
    ELSE Returned(LlmMinutes(meeting_data, max_length, outs))

\* --------------------------------------------------------- OutputGenerator
\* What generate_outputs is given is a dict modelled as a record of just the
\* keys that are present; d.get(k, default) reads through DictGet.
DictGet(d, k, default) == IF k \in DOMAIN d THEN d[k] ELSE default
NoDict == [k \in {} |-> <<>>]

\* A value of type datetime.date where str(date) belongs
DateObjects == {"datetime.date(2024, 1, 15)"}

\* The object graph json.dumps walks: str, list and dict nodes, and objects of
\* any other type
Str(s) == [t |-> "str", v |-> s]
List(items) == [t |-> "list", v |-> items]
Dict(keys, vals) == [t |-> "dict", k |-> keys, v |-> vals]
Object(name) == [t |-> "object", v |-> <<name>>]

\* The keys of the minutes record, of meeting_info and of an action item, in
\* the order the dict literals of generate_minutes insert them
MinutesKeys ==
    <<"meeting_info", "summary", "key_decisions", "action_items", "next_steps",
      "full_transcript">>
InfoKeys == <<"title", "date", "participants", "duration">>
ItemKeys == <<"task", "assignee", "due_date", "priority">>

\* The keys of `order` that dict d has
KeysOf(d, order) == SelectSeq(order, LAMBDA k : k \in DOMAIN d)

StrList(xs) == List([i \in 1..Len(xs) |-> Str(xs[i])])

StrDict(d, order) ==
    LET keys == KeysOf(d, order)
    IN  Dict(keys, [i \in 1..Len(keys) |-> Str(d[keys[i]])])

InfoValue(info) ==
    LET keys == KeysOf(info, InfoKeys)
        Val(k) == CASE k = "participants" -> StrList(info[k])
                    [] k = "date" /\ info[k] \in DateObjects -> Object(info[k])
                    [] OTHER -> Str(<<info[k]>>)
    IN  Dict(keys, [i \in 1..Len(keys) |-> Val(keys[i])])

\* The minutes record as the object graph it is in the program
PyValue(minutes) ==
    LET keys == KeysOf(minutes, MinutesKeys)
        Val(k) == CASE k = "meeting_info" -> InfoValue(minutes[k])
                    [] k \in {"summary", "full_transcript"} -> Str(minutes[k])
                    [] k = "action_items" ->
                         List([i \in 1..Len(minutes[k]) |-> StrDict(minutes[k][i], ItemKeys)])
                    [] OTHER -> StrList(minutes[k])
    IN  Dict(keys, [i \in 1..Len(keys) |-> Val(keys[i])])

\* json.dumps raises TypeError for an object that is no str, list or dict
RECURSIVE Serializable(_)
Serializable(value) ==
    CASE value.t = "str" -> TRUE
      [] value.t = "object" -> FALSE
      [] OTHER -> \A i \in 1..Len(value.v) : Serializable(value.v[i])

\* A JSON string literal: quote, backslash and newline are escaped
EscapeToken(c) ==
    CASE c = "\"" -> <<"\\", "\"">>
      [] c = "\\" -> <<"\\", "\\">>
      [] c = "\n" -> <<"\\", "n">>
      [] OTHER -> <<c>>

RECURSIVE EscapeAll(_)
EscapeAll(s) == IF s = <<>> THEN <<>> ELSE EscapeToken(Head(s)) \o EscapeAll(Tail(s))

EncodeString(s) == <<"\"">> \o EscapeAll(s) \o <<"\"">>

Indent(level) == [i \in 1..(2 * level) |-> " "]

\* json.dumps(value, indent=2, ensure_ascii=False) at nesting depth `level`
RECURSIVE json_dumps(_, _)
RECURSIVE DumpItems(_, _, _)
DumpItems(value, i, level) ==
    Indent(level)
    \o (IF value.t = "dict" THEN EncodeString(<<value.k[i]>>) \o <<":", " ">> ELSE <<>>)
    \o json_dumps(value.v[i], level)
    \o (IF i < Len(value.v) THEN <<",", "\n">> \o DumpItems(value, i + 1, level) ELSE <<>>)

json_dumps(value, level) ==
    CASE value.t = "str" -> EncodeString(value.v)
      [] value.t = "list" ->
           IF value.v = <<>> THEN <<"[", "]">>
           ELSE <<"[", "\n">> \o DumpItems(value, 1, level + 1)
                \o <<"\n">> \o Indent(level) \o <<"]">>
      [] OTHER ->
           IF value.v = <<>> THEN <<"{", "}">>
           ELSE <<"{", "\n">> \o DumpItems(value, 1, level + 1)
                \o <<"\n">> \o Indent(level) \o <<"}">>

\* The escape sequence backslash-c read as the token c itself
UnescapeKeepingLetter(c) == c

\* The token an escape sequence backslash-c stands for
Unescape(c) == IF c = "n" THEN "\n" ELSE c

\* json.loads: a recursive-descent parser; each Parse hands back the value
\* read and the tokens that follow it
RECURSIVE ParseString(_, _)
ParseString(s, acc) ==
    IF Head(s) = "\"" THEN [val |-> acc, rest |-> Tail(s)]
    ELSE IF Head(s) = "\\"
    THEN ParseString(Tail(Tail(s)), Append(acc, Unescape(s[2])))
    ELSE ParseString(Tail(s), Append(acc, Head(s)))

RECURSIVE ParseValue(_)
RECURSIVE ParseItems(_, _)
RECURSIVE ParseMembers(_, _, _)
ParseItems(s0, acc) ==
    LET s == LStrip(s0, Whitespace \cup {","})
    IN  IF Head(s) = "]" THEN [val |-> List(acc), rest |-> Tail(s)]
        ELSE LET item == ParseValue(s)
             IN  ParseItems(item.rest, Append(acc, item.val))

ParseMembers(s0, keys, vals) ==
    LET s == LStrip(s0, Whitespace \cup {","})
    IN  IF Head(s) = "}" THEN [val |-> Dict(keys, vals), rest |-> Tail(s)]
        ELSE LET key == ParseString(Tail(s), <<>>)
                 member == ParseValue(LStrip(key.rest, Whitespace \cup {":"}))
             IN  ParseMembers(member.rest, Append(keys, key.val[1]),
                              Append(vals, member.val))

ParseValue(s0) ==
    LET s == LStrip(s0, Whitespace)
    IN  CASE Head(s) = "[" -> ParseItems(Tail(s), <<>>)
          [] Head(s) = "{" -> ParseMembers(Tail(s), <<>>, <<>>)
          [] OTHER -> LET str == ParseString(Tail(s), <<>>)
                      IN  [val |-> Str(str.val), rest |-> str.rest]

json_loads(payload) == ParseValue(payload).val

\* What a renderer hands back: the payload, or the exception it raised after
\* showing its message.  A payload is the text that .encode('utf-8') turns
\* into bytes and .decode('utf-8') turns back.
Rendered(payload) == [ok |-> TRUE, payload |-> payload, shown |-> <<>>]
RenderFails(message) == [ok |-> FALSE, payload |-> <<>>, shown |-> <<message>>]

_generate_json(minutes) ==
    IF Serializable(PyValue(minutes))
    THEN Rendered(json_dumps(PyValue(minutes), 0))
    ELSE RenderFails("Error generating JSON")

\* ''.join([... for x in xs]) with each x wrapped in `open` and `close`
RECURSIVE Wrapped(_, _, _)
Wrapped(xs, open, close) ==
    IF xs = <<>> THEN <<>>
    ELSE <<open>> \o Head(xs) \o <<close>> \o Wrapped(Tail(xs), open, close)

RECURSIVE ActionItemsHtml(_)
ActionItemsHtml(items) ==
    IF items = <<>> THEN <<>>
    ELSE <<"<div class=action-item><strong>">>
         \o DictGet(Head(items), "assignee", <<"Unassigned">>) \o <<":</strong> ">>
         \o DictGet(Head(items), "task", <<>>) \o <<" <em>(Due: ">>
         \o DictGet(Head(items), "due_date", <<"TBD">>) \o <<")</em></div>">>
         \o ActionItemsHtml(Tail(items))

\* str(x) of a meeting_info entry
StrOf(x) == IF x \in DateObjects THEN "2024-01-15" ELSE x

_generate_html(minutes) ==
    LET meeting_info == DictGet(minutes, "meeting_info", NoDict)
    IN  Rendered(
            <<"<h1>Meeting Minutes: ", StrOf(DictGet(meeting_info, "title", "Meeting")), "</h1>",
              "<p><strong>Date:</strong> ", StrOf(DictGet(meeting_info, "date", "")), "</p>",
              "<p><strong>Duration:</strong> ",
              StrOf(DictGet(meeting_info, "duration", "Unknown")), "</p>",
              "<p><strong>Participants:</strong> ">>
            \o Join(DictGet(meeting_info, "participants", <<>>), ", ")
            \o <<"</p>", "<h2>Summary</h2>", "<p>">>
            \o DictGet(minutes, "summary", <<>>)
            \o <<"</p>", "<h2>Key Decisions</h2>">>
            \o Wrapped(DictGet(minutes, "key_decisions", <<>>),
                       "<div class=decision>(bullet) ", "</div>")
            \o <<"<h2>Action Items</h2>">>
            \o ActionItemsHtml(DictGet(minutes, "action_items", <<>>))
            \o <<"<h2>Next Steps</h2>", "<ul>">>
            \o Wrapped(DictGet(minutes, "next_steps", <<>>), "<li>", "</li>")
            \o <<"</ul>", "<h2>Full Transcript</h2>", "<pre>">>
            \o DictGet(minutes, "full_transcript", <<>>)
            \o <<"</pre>", "Generated on ", "generated_time">>)

RECURSIVE Bulleted(_)
Bulleted(xs) ==
    IF xs = <<>> THEN <<>>
    ELSE <<"(bullet) ">> \o Head(xs)
         \o (IF Len(xs) > 1 THEN <<"\n">> ELSE <<>>) \o Bulleted(Tail(xs))

RECURSIVE ActionItemsText(_)
ActionItemsText(items) ==
    IF items = <<>> THEN <<>>
    ELSE <<"(bullet) ">> \o DictGet(Head(items), "assignee", <<"Unassigned">>)
         \o <<": ">> \o DictGet(Head(items), "task", <<>>)
         \o (IF Len(items) > 1 THEN <<"\n">> ELSE <<>>) \o ActionItemsText(Tail(items))

_generate_pdf(minutes) ==
    LET meeting_info == DictGet(minutes, "meeting_info", NoDict)
    IN  Rendered(
            <<"Meeting Minutes: ", StrOf(DictGet(meeting_info, "title", "Meeting")), "\n",
              "Date: ", StrOf(DictGet(meeting_info, "date", "")), "\n",
              "Summary:", "\n">>
            \o DictGet(minutes, "summary", <<>>)
            \o <<"\n", "Key Decisions:", "\n">>
            \o Bulleted(DictGet(minutes, "key_decisions", <<>>))
            \o <<"\n", "Action Items:", "\n">>
            \o ActionItemsText(DictGet(minutes, "action_items", <<>>)))

KnownFormats == {"JSON", "HTML", "PDF"}

Render(format_name, minutes) ==
    CASE format_name = "JSON" -> _generate_json(minutes)
      [] format_name = "HTML" -> _generate_html(minutes)
      [] OTHER -> _generate_pdf(minutes)

\* What generate_outputs hands back: the outputs dict, or the exception it
\* re-raised, with the messages shown on the way
NoOutputs == [status |-> "none", outputs |-> NoDict, shown |-> <<>>]
OutputsReturned(outputs) == [status |-> "returned", outputs |-> outputs, shown |-> <<>>]
OutputsRaised(shown) == [status |-> "raised", outputs |-> NoDict, shown |-> shown]

\* outputs[key] = payload
Put(outputs, key, payload) ==
    [k \in DOMAIN outputs \cup {key} |-> IF k = key THEN payload ELSE outputs[k]]

\* generate_outputs that hands back what it has rendered so far when a
\* renderer raises
RECURSIVE GenerateOutputsKeepingPartial(_, _, _)
GenerateOutputsKeepingPartial(minutes, formats, outputs) ==
    IF formats = <<>> THEN OutputsReturned(outputs)
    ELSE IF Head(formats) \notin KnownFormats
    THEN GenerateOutputsKeepingPartial(minutes, Tail(formats), outputs)
    ELSE LET got == Render(Head(formats), minutes)
         IN  IF got.ok
             THEN GenerateOutputsKeepingPartial(minutes, Tail(formats),
                                                Put(outputs, Head(formats), got.payload))
             ELSE OutputsReturned(outputs)

\* generate_outputs that raises for an identifier it does not know
RECURSIVE RenderEachRejectingUnknown(_, _, _)
RenderEachRejectingUnknown(minutes, formats, outputs) ==
    IF formats = <<>> THEN OutputsReturned(outputs)
    ELSE IF Head(formats) \notin KnownFormats
    THEN OutputsRaised(<<"Error generating outputs">>)
    ELSE LET got == Render(Head(formats), minutes)
         IN  IF got.ok
             THEN RenderEachRejectingUnknown(minutes, Tail(formats),
                                             Put(outputs, Head(formats), got.payload))
             ELSE OutputsRaised(got.shown \o <<"Error generating outputs">>)

\* The loop of generate_outputs over the formats still to do
RECURSIVE RenderEach(_, _, _)
RenderEach(minutes, formats, outputs) ==
    IF formats = <<>> THEN OutputsReturned(outputs)
    ELSE IF Head(formats) \notin KnownFormats
    THEN RenderEach(minutes, Tail(formats), outputs)
    ELSE LET got == Render(Head(formats), minutes)
         IN  IF got.ok
             THEN RenderEach(minutes, Tail(formats),
                             Put(outputs, Head(formats), got.payload))
             ELSE OutputsRaised(got.shown \o <<"Error generating outputs">>)

\* OutputGenerator.generate_outputs
generate_outputs(minutes, formats) == RenderEach(minutes, formats, NoDict)

\* ---------------------------------------------------------- AudioProcessor
\* A path is the sequence of its characters.
UpperCase ==
    <<"A", "B", "C", "D", "E", "F", "G", "H", "I", "J", "K", "L", "M",
      "N", "O", "P", "Q", "R", "S", "T", "U", "V", "W", "X", "Y", "Z">>
LowerCase ==
    <<"a", "b", "c", "d", "e", "f", "g", "h", "i", "j", "k", "l", "m",
      "n", "o", "p", "q", "r", "s", "t", "u", "v", "w", "x", "y", "z">>

\* s.lower()
LowerChar(c) ==
    IF \E i \in 1..Len(UpperCase) : UpperCase[i] = c
    THEN LowerCase[CHOOSE i \in 1..Len(UpperCase) : UpperCase[i] = c]
    ELSE c
Lower(s) == [i \in 1..Len(s) |-> LowerChar(s[i])]

\* self.supported_formats
supported_formats ==
    << <<".", "m", "p", "3">>, <<".", "w", "a", "v">>, <<".", "m", "p", "4">>,
       <<".", "a", "v", "i">>, <<".", "m", "o", "v">>, <<".", "m", "k", "v">> >>

\* Path(file_path).name: the final component, trailing separators dropped
PathName(file_path) == AfterLast(RStrip(file_path, {"/"}), "/")

\* Path(file_path).suffix: the name from its last dot on, unless that dot
\* starts or ends the name
PathSuffix(file_path) ==
    LET name == PathName(file_path)
        dots == {i \in 1..Len(name) : name[i] = "."}
    IN  IF dots # {} /\ 1 < MaxOf(dots) /\ MaxOf(dots) < Len(name)
        THEN SubSeq(name, MaxOf(dots), Len(name))
        ELSE <<>>

\* validate_file comparing the extension as it is written
ValidateFileCaseSensitive(file_path) ==
    \E i \in 1..Len(supported_formats) : supported_formats[i] = PathSuffix(file_path)

\* AudioProcessor.validate_file
validate_file(file_path) ==
    LET file_ext == Lower(PathSuffix(file_path))
    IN  \E i \in 1..Len(supported_formats) : supported_formats[i] = file_ext

\* --------------------------------------------------------------- Evaluator
\* s.split(): the whitespace-separated words, in order
RECURSIVE SplitWords(_)
SplitWords(s) ==
    LET t == LStrip(s, Whitespace)
        gaps == {i \in 1..Len(t) : t[i] \in Whitespace}
        n == IF gaps = {} THEN Len(t) ELSE MinOf(gaps) - 1
    IN  IF t = <<>> THEN <<>>
        ELSE <<SubSeq(t, 1, n)>> \o SplitWords(SubSeq(t, n + 1, Len(t)))

\* set(xs)
SetOf(xs) == {xs[i] : i \in 1..Len(xs)}

\* A score is the exact quotient n / d, kept as <<n, d>> with d > 0
Zero == <<0, 1>>
One == <<1, 1>>
OneMinus(q) == <<q[2] - q[1], q[2]>>
\* max(0.0, min(1.0, q))
Clamp(q) == IF q[1] < 0 THEN Zero ELSE IF q[1] > q[2] THEN One ELSE q

_calculate_wer(reference, hypothesis) ==
    LET ref_words == SplitWords(Lower(reference))
        hyp_words == SplitWords(Lower(hypothesis))
        common_words == SetOf(ref_words) \cap SetOf(hyp_words)
    IN  IF Len(ref_words) = 0
        THEN (IF Len(hyp_words) > 0 THEN One ELSE Zero)
        ELSE Clamp(OneMinus(<<Cardinality(common_words), Len(ref_words)>>))

_calculate_cer(reference, hypothesis) ==
    LET a == Lower(reference)
        b == Lower(hypothesis)
        both == 1..(IF Len(a) < Len(b) THEN Len(a) ELSE Len(b))
        common_chars == Cardinality({i \in both : a[i] = b[i]})
    IN  IF Len(reference) = 0
        THEN (IF Len(hypothesis) > 0 THEN One ELSE Zero)
        ELSE Clamp(OneMinus(<<common_chars, Len(reference)>>))

\* A unigram precision that counts every occurrence of a hypothesis word
CalculateBleuCountingRepeats(reference, hypothesis) ==
    LET ref_words == SetOf(SplitWords(Lower(reference)))
        hyp_list == SplitWords(Lower(hypothesis))
        hits == Cardinality({i \in 1..Len(hyp_list) : hyp_list[i] \in ref_words})
    IN  IF hyp_list = <<>> THEN Zero
        ELSE <<hits, Cardinality(SetOf(hyp_list))>>

_calculate_bleu(reference, hypothesis) ==
    LET ref_words == SetOf(SplitWords(Lower(reference)))
        hyp_words == SetOf(SplitWords(Lower(hypothesis)))
    IN  IF Cardinality(hyp_words) = 0 THEN Zero
        ELSE <<Cardinality(ref_words \cap hyp_words), Cardinality(hyp_words)>>

\* ROUGE-1 with the overlap taken over the hypothesis words
CalculateRouge1OverHypothesis(reference, hypothesis) ==
    LET ref_words == SetOf(SplitWords(Lower(reference)))
        hyp_words == SetOf(SplitWords(Lower(hypothesis)))
    IN  IF Cardinality(ref_words) = 0 \/ Cardinality(hyp_words) = 0 THEN Zero
        ELSE <<Cardinality(ref_words \cap hyp_words), Cardinality(hyp_words)>>

_calculate_rouge_1(reference, hypothesis) ==
    LET ref_words == SetOf(SplitWords(Lower(reference)))
        hyp_words == SetOf(SplitWords(Lower(hypothesis)))
    IN  IF Cardinality(ref_words) = 0 THEN Zero
        ELSE <<Cardinality(ref_words \cap hyp_words), Cardinality(ref_words)>>

_get_bigrams(text) ==
    LET text_words == SplitWords(text)
    IN  [i \in 1..(Len(text_words) - 1) |-> <<text_words[i], text_words[i + 1]>>]

_calculate_rouge_2(reference, hypothesis) ==
    LET ref_bigrams == _get_bigrams(Lower(reference))
        hyp_bigrams == _get_bigrams(Lower(hypothesis))
        overlap == Cardinality(SetOf(ref_bigrams) \cap SetOf(hyp_bigrams))
    IN  IF Len(ref_bigrams) = 0 THEN Zero
        ELSE <<overlap, Len(ref_bigrams)>>

\* A ROUGE-L of its own, taken over word pairs
CalculateRougeLOverPairs(reference, hypothesis) == _calculate_rouge_2(reference, hypothesis)

_calculate_rouge_l(reference, hypothesis) == _calculate_rouge_1(reference, hypothesis)

_calculate_semantic_similarity(reference, hypothesis) ==
    _calculate_rouge_1(reference, hypothesis)

evaluate_transcription(reference, hypothesis) ==
    [word_error_rate |-> _calculate_wer(reference, hypothesis),
     character_error_rate |-> _calculate_cer(reference, hypothesis),
     bleu_score |-> _calculate_bleu(reference, hypothesis),
     accuracy |-> OneMinus(_calculate_wer(reference, hypothesis))]

evaluate_summarization(reference, hypothesis) ==
    [rouge_1 |-> _calculate_rouge_1(reference, hypothesis),
     rouge_2 |-> _calculate_rouge_2(reference, hypothesis),
     rouge_l |-> _calculate_rouge_l(reference, hypothesis),
     semantic_similarity |-> _calculate_semantic_similarity(reference, hypothesis)]

\* ------------------------------------------------------------------ inputs
\* A transcript of w words: `lead` whitespace tokens, then each word followed
\* by `gap` whitespace tokens (newlines and blanks alternate).
MakeText(w, lead, gap) ==
    [i \in 1..(lead + w * (1 + gap)) |->
        IF i <= lead THEN " "
        ELSE IF (i - lead - 1) % (1 + gap) = 0 THEN "w"
        ELSE IF (i - lead) % 2 = 0 THEN "\n" ELSE " "]

WordCounts ==
    {0, 1} \cup {k * WordsPerMinute + d : k \in 1..MaxMinutes, d \in {-1, 0, 1}}

Layouts == {<<0, 1>>, <<2, 2>>}

StdMeeting(tv) ==
    [has |-> {"title", "date", "participants", "transcript"},
     title |-> "Sprint Review", date |-> "2024-01-15",
     participants |-> << <<"Ann">>, <<"Ben">> >>, transcript |-> tv]

\* meeting_data with keys missing
BareMeeting(keys, tv) ==
    [has |-> keys, title |-> "", date |-> "", participants |-> <<>>, transcript |-> tv]

Input(md, ml, w) == [meeting_data |-> md, max_length |-> ml, words |-> w]

MaxLengths == {100, 500}

\* The profile fixed at Init says which input of generate_minutes ranges over
\* its large set: the transcript, the shape of meeting_data, or the completion
\* of one extraction.
Profiles == {"durations", "inputs", "key_decisions", "action_items", "next_steps"}

ShortText == MakeText(2, 0, 1)

DurationInputs ==
    {Input(StdMeeting(TranscriptDict(MakeText(w, l[1], l[2]))), 500, w) :
        w \in WordCounts, l \in Layouts}

ShapeInputs ==
    {Input(md, ml, 0) :
        md \in {StdMeeting(EmptyDict), StdMeeting(NoneValue),
                BareMeeting({"title"}, EmptyDict)},
        ml \in MaxLengths}
    \cup {Input(md, ml, 2) :
            md \in {StdMeeting(TranscriptDict(ShortText)),
                    BareMeeting({"transcript"}, TranscriptDict(ShortText))},
            ml \in MaxLengths}
    \cup {Input(StdMeeting(TranscriptDict(MakeText(1, 1, 1))), ml, 1) :
            ml \in MaxLengths}

FocusInputs == {Input(StdMeeting(TranscriptDict(ShortText)), 500, 2)}

InputsOf(p) ==
    CASE p = "durations" -> DurationInputs
      [] p = "inputs" -> ShapeInputs
      [] OTHER -> FocusInputs

\* The lines a completion is made of, per extraction
LineKinds(field) ==
    CASE field = "key_decisions" -> {<<" ", "a", " ">>, <<"2">>, <<" ">>}
      [] field = "action_items" -> {<<"a", " ", "-", " ", "b">>, <<"a", "-">>, <<>>}
      [] field = "next_steps" -> {<<"-", " ", "a">>, <<"a">>, <<" ">>}
      [] OTHER -> {}

LineSeqs(kinds, n) == UNION {[1..k -> kinds] : k \in 0..n}

BasicCompletions(field) ==
    CASE field = "summary" -> {<<" ", "s", "\n">>}
      [] field = "key_decisions" -> {<<"\n", "1", ".", " ", "a", "\n", "b">>}
      [] field = "action_items" -> {<<"\n", "a", "-", "b", "-", "c", "-", "d">>}
      [] OTHER -> {<<"\n", "*", " ", "a">>}

\* A completion that repeats the prompt's marker
EchoCompletions(field) ==
    CASE field = "summary" -> {<<" ", "x", "\n", "Summary:", " ", "s", "2">>}
      [] field = "key_decisions" -> {<<"\n", "x", "\n", "Key Decisions:", "\n", "a">>}
      [] field = "action_items" -> {<<"\n", "x", "-", "y", "\n", "Action Items:", "\n", "a", "-", "b">>}
      [] OTHER -> {<<"\n", "x", "\n", "Next Steps:", "\n", "a">>}

FocusCompletions(field) ==
    {<<"\n">> \o Join(ls, "\n") : ls \in LineSeqs(LineKinds(field), MaxLines)}

DecisionCompletions == FocusCompletions("key_decisions")
ActionItemCompletions == FocusCompletions("action_items")
NextStepCompletions == FocusCompletions("next_steps")

Completions(p, field) ==
    IF p = "inputs" THEN BasicCompletions(field) \cup EchoCompletions(field)
    ELSE IF p # field THEN BasicCompletions(field)
    ELSE CASE field = "key_decisions" -> DecisionCompletions
           [] field = "action_items" -> ActionItemCompletions
           [] OTHER -> NextStepCompletions

Outcomes(p, field) == {Fail} \cup {Ok(c) : c \in Completions(p, field)}

\* ------------------------------------------------------------------- state
VARIABLES
    profile,        \* which input ranges widely (fixed at Init)
    self,           \* the MeetingSummarizer instance
    loaded,         \* history: the instance as __init__ left it
    gpc,            \* where the caller of generate_minutes is
    meeting_data,   \* arguments of the running / last generate_minutes call
    max_length,
    words,          \* history: the number of words put into the transcript
    calls,          \* the pipeline calls of this generate_minutes call, in order
    result,         \* what the last generate_minutes call handed back
    prev            \* an earlier demo-mode call the caller remembers

genVars == <<profile, self, loaded, gpc, meeting_data, max_length, words, calls,
             result, prev>>

VARIABLES
    ppc,              \* where each request is in process_meeting
    files,            \* the temporary files that exist
    temp_path,        \* process_meeting's locals, per request
    processed_audio,
    summarizer,
    transcript,
    minutes,
    output_files,
    errors,           \* the st.error messages shown, per request
    stages,           \* history: the stages each request has started
    failed            \* history: the stage that raised, per request

mtgVars == <<ppc, files, temp_path, processed_audio, summarizer, transcript,
             minutes, output_files, errors, stages, failed>>

VARIABLES
    xpc,              \* where the caller of generate_outputs is
    export_minutes,   \* the arguments of generate_outputs
    export_formats,
    outputs,          \* what generate_outputs handed back
    json_data         \* json.loads of the JSON payload

exportVars == <<xpc, export_minutes, export_formats, outputs, json_data>>

VARIABLES
    apc,              \* where the caller of the AudioProcessor is
    file_path,        \* the path it passes
    is_valid,         \* what validate_file returned
    output_path,      \* what process_file handed back
    audio_files       \* the files that exist

audioVars == <<apc, file_path, is_valid, output_path, audio_files>>

VARIABLES
    reference,        \* the texts given to the Evaluator
    hypothesis,
    trans_metrics,    \* what evaluate_transcription returned
    sum_metrics       \* what evaluate_summarization returned

evalVars == <<reference, hypothesis, trans_metrics, sum_metrics>>

toolVars == <<exportVars, audioVars, evalVars>>

FieldSet == {Fields[i] : i \in 1..Len(Fields)}

\* The outcomes of the pipeline calls made so far, by field
OutsOf(cs) ==
    [f \in {cs[i].field : i \in 1..Len(cs)} |->
        (CHOOSE c \in {cs[i] : i \in 1..Len(cs)} : c.field = f).out]

\* The profiles in which the caller keeps an earlier demo-mode call to compare
\* a later one with
RememberIn == {"inputs"}

NoOuts == [f \in {} |-> Fail]
NoInput == Input(BareMeeting({}, EmptyDict), 0, 0)
NoPrev == [set |-> FALSE, input |-> NoInput, result |-> NoResult]

\* The pipeline call that follows the one for field f
NextField(f) == Fields[1 + CHOOSE i \in 1..(Len(Fields) - 1) : Fields[i] = f]

GenInit ==
    /\ profile \in Profiles
    /\ self = NewSummarizer
    /\ loaded = NewSummarizer
    /\ gpc = "new"
    /\ meeting_data = NoInput.meeting_data
    /\ max_length = 0
    /\ words = 0
    /\ calls = <<>>
    /\ result = NoResult
    /\ prev = NoPrev

\* MeetingSummarizer(model_name): __init__ runs _load_model and _load_dataset
Construct(outcome, dataset) ==
    /\ gpc = "new"
    /\ self' = _load_dataset(_load_model(NewSummarizer, outcome), dataset)
    /\ loaded' = self'
    /\ gpc' = "idle"
    /\ UNCHANGED <<profile, meeting_data, max_length, words, calls, result, prev>>
    /\ UNCHANGED <<mtgVars, toolVars>>

\* The caller starts generate_minutes(meeting_data, max_length) with the
\* instance left as newSelf.  The demo path and the except clause finish
\* within the call; the LLM path goes on to its first pipeline call.
EnterGenerateMinutes(input, newSelf) ==
    /\ gpc \in {"idle", "returned", "raised"}
    /\ prev' \in IF gpc = "returned" /\ UseDemo(self) /\ profile \in RememberIn
                 THEN {prev, [set |-> TRUE,
                              input |-> Input(meeting_data, max_length, words),
                              result |-> result]}
                 ELSE {prev}
    /\ self' = newSelf
    /\ meeting_data' = input.meeting_data
    /\ max_length' = input.max_length
    /\ words' = input.words
    /\ calls' = <<>>
    /\ IF ~TranscriptReadable(input.meeting_data) \/ UseDemo(newSelf)
       THEN /\ result' = generate_minutes(newSelf, input.meeting_data,
                                         input.max_length, NoOuts)
            /\ gpc' = result'.status
       ELSE /\ result' = NoResult
            /\ gpc' = "summary"
    /\ UNCHANGED <<profile, loaded>>
    /\ UNCHANGED <<mtgVars, toolVars>>


\* generate_minutes as it would be if it tried _load_model again whenever it
\* found the instance in demo mode
CallGenerateMinutesReloading(input) ==
    \E o \in LoadOutcomes :
        EnterGenerateMinutes(input, IF UseDemo(self) THEN _load_model(self, o) ELSE self)

CallGenerateMinutes(input) == EnterGenerateMinutes(input, self)

\* One of the four self.pipeline(...) calls of the LLM path comes back with
\* `out`, leaving the instance as newSelf; after the fourth the record is
\* built and generate_minutes returns.
PipelineCallReturns(out, newSelf) ==
    /\ gpc \in FieldSet
    /\ calls' = Append(calls, [field |-> gpc, out |-> out])
    /\ self' = newSelf
    /\ IF gpc = Fields[Len(Fields)]
       THEN /\ result' = generate_minutes(newSelf, meeting_data, max_length, OutsOf(calls'))
            /\ gpc' = result'.status
       ELSE /\ result' = NoResult
            /\ gpc' = NextField(gpc)
    /\ UNCHANGED <<profile, loaded, meeting_data, max_length, words, prev>>
    /\ UNCHANGED <<mtgVars, toolVars>>


\* An except clause that also puts the instance into demo mode
InvokePipelineGivingUp(out) ==
    PipelineCallReturns(out, IF out.ok THEN self
                             ELSE [self EXCEPT !.model = "demo_mode"])

\* generate_minutes giving up on the remaining calls at the first failure and
\* returning the demo record
InvokePipelineStoppingAtFailure(out) ==
    IF out.ok THEN PipelineCallReturns(out, self)
    ELSE /\ gpc \in FieldSet
         /\ calls' = Append(calls, [field |-> gpc, out |-> out])
         /\ result' = _generate_demo_minutes(meeting_data, max_length)
         /\ gpc' = result'.status
         /\ UNCHANGED <<profile, self, loaded, meeting_data, max_length, words, prev>>
         /\ UNCHANGED <<mtgVars, toolVars>>

InvokePipeline(out) == PipelineCallReturns(out, self)

GenNext ==
    \/ \E o \in LoadOutcomes, d \in DatasetOutcomes : Construct(o, d)
    \/ \E input \in InputsOf(profile) : CallGenerateMinutes(input)
    \/ (gpc \in FieldSet /\ \E out \in Outcomes(profile, gpc) : InvokePipeline(out))

\* --------------------------------------------------------- process_meeting
Requests == 1..NumRequests

\* The names tempfile.NamedTemporaryFile hands out are unique
NoFile == <<"none", 0>>
\* One name for every request's upload copy
SharedUploadFile(r) == <<"upload", 0>>
UploadFile(r) == <<"upload", r>>
AudioFile(r) == <<"audio", r>>

\* Transcriber.transcribe: the fixed demo transcript (text, segments, language)
DemoTranscript == TranscriptDict(MakeText(3, 1, 1))

\* What the user typed: title, date, participants (one per line)
FormTitle == "Team Meeting"
\* The title in request r's form: the first leaves the default, the others
\* type their own
MeetingTitle(r) == IF r = 1 THEN FormTitle ELSE "Meeting " \o ToString(r)
FormDate == "2024-01-15"
FormParticipants == <<"A", "n", "n", "\n", " ", "\n", " ", "B", "e", "n">>

\* [p.strip() for p in participants.split('\n') if p.strip()]
ParseParticipants(text) ==
    LET NonBlank(p) == Strip(p) # <<>>
    IN  MapStrip(SelectSeq(SplitOn(text, "\n"), NonBlank))

MeetingData(title, date, participants, spoken) ==
    [has |-> {"title", "date", "participants", "transcript"},
     title |-> title, date |-> date,
     participants |-> ParseParticipants(participants),
     transcript |-> spoken]

\* The sidebar's defaults
OutputFormats == <<"JSON", "HTML">>
MaxSummaryLength == 500


\* The pipeline outcomes a request's four extractions can meet
AllOk == [f \in FieldSet |-> Ok(CHOOSE c \in BasicCompletions(f) : TRUE)]
MeetingOuts == {AllOk, [AllOk EXCEPT !["key_decisions"] = Fail]}
MeetingLoadOutcomes == {"loaded", "model_fails"}

MtgInit ==
    /\ ppc = [r \in Requests |-> "start"]
    /\ files = {}
    /\ temp_path = [r \in Requests |-> NoFile]
    /\ processed_audio = [r \in Requests |-> NoFile]
    /\ summarizer = [r \in Requests |-> NewSummarizer]
    /\ transcript = [r \in Requests |-> NoneValue]
    /\ minutes = [r \in Requests |-> NoResult]
    /\ output_files = [r \in Requests |-> NoOutputs]
    /\ errors = [r \in Requests |-> <<>>]
    /\ stages = [r \in Requests |-> <<>>]
    /\ failed = [r \in Requests |-> "none"]

\* Request r is at `at` and starts `stage`
Starts(r, at, stage) ==
    /\ ppc[r] = at
    /\ stages' = [stages EXCEPT ![r] = Append(@, stage)]
    /\ UNCHANGED <<genVars, toolVars>>

\* `stage` raised after showing `shown`: the except clause of process_meeting
\* shows its own message and process_meeting returns
Raises(r, stage, shown) ==
    /\ ppc' = [ppc EXCEPT ![r] = "returned"]
    /\ errors' = [errors EXCEPT ![r] = @ \o shown \o <<"Error processing meeting">>]
    /\ failed' = [failed EXCEPT ![r] = stage]

Goes(r, to) ==
    /\ ppc' = [ppc EXCEPT ![r] = to]
    /\ UNCHANGED <<errors, failed>>

\* with tempfile.NamedTemporaryFile(delete=False, ...) as tmp_file: write
SaveUpload(r, outcome) ==
    /\ Starts(r, "start", "save_upload")
    /\ CASE outcome = "ok" ->
              /\ files' = files \cup {UploadFile(r)}
              /\ temp_path' = [temp_path EXCEPT ![r] = UploadFile(r)]
              /\ Goes(r, "saved")
         [] outcome = "write_fails" ->
              /\ files' = files \cup {UploadFile(r)}
              /\ UNCHANGED temp_path
              /\ Raises(r, "save_upload", <<>>)
         [] OTHER ->
              /\ UNCHANGED <<files, temp_path>>
              /\ Raises(r, "save_upload", <<>>)
    /\ UNCHANGED <<processed_audio, summarizer, transcript, minutes, output_files>>

\* AudioProcessor(), Transcriber(), MeetingSummarizer(model_choice), OutputGenerator()
CreateProcessors(r, whisper, llm, dataset) ==
    /\ Starts(r, "saved", "create_processors")
    /\ IF whisper = "ok"
       THEN /\ summarizer' = [summarizer EXCEPT ![r] =
                                  _load_dataset(_load_model(NewSummarizer, llm), dataset)]
            /\ Goes(r, "created")
       ELSE /\ UNCHANGED summarizer
            /\ Raises(r, "create_processors", <<"Error loading Whisper model">>)
    /\ UNCHANGED <<files, temp_path, processed_audio, transcript, minutes, output_files>>

\* audio_processor.process_file(temp_path, chunk_length)
process_file(r, outcome) ==
    /\ Starts(r, "created", "process_file")
    /\ CASE outcome = "ok" ->
              /\ files' = files \cup {AudioFile(r)}
              /\ processed_audio' = [processed_audio EXCEPT ![r] = AudioFile(r)]
              /\ Goes(r, "processed")
         [] outcome = "copy_fails" ->
              /\ files' = files \cup {AudioFile(r)}
              /\ UNCHANGED processed_audio
              /\ Raises(r, "process_file", <<"Error processing audio file">>)
         [] OTHER ->
              /\ UNCHANGED <<files, processed_audio>>
              /\ Raises(r, "process_file", <<"Error processing audio file">>)
    /\ UNCHANGED <<temp_path, summarizer, transcript, minutes, output_files>>


\* transcribe falling back to a placeholder transcript instead of raising
TranscribeSubstituting(r, outcome) ==
    /\ Starts(r, "processed", "transcribe")
    /\ transcript' = [transcript EXCEPT ![r] = DemoTranscript]
    /\ ppc' = [ppc EXCEPT ![r] = "transcribed"]
    /\ IF outcome = "ok"
       THEN UNCHANGED <<errors, failed>>
       ELSE /\ errors' = [errors EXCEPT ![r] = Append(@, "Error during transcription")]
            /\ failed' = [failed EXCEPT ![r] = "transcribe"]
    /\ UNCHANGED <<files, temp_path, processed_audio, summarizer, minutes, output_files>>

\* transcriber.transcribe(processed_audio)
transcribe(r, outcome) ==
    /\ Starts(r, "processed", "transcribe")
    /\ IF outcome = "ok"
       THEN /\ transcript' = [transcript EXCEPT ![r] = DemoTranscript]
            /\ Goes(r, "transcribed")
       ELSE /\ UNCHANGED transcript
            /\ Raises(r, "transcribe", <<"Error during transcription">>)
    /\ UNCHANGED <<files, temp_path, processed_audio, summarizer, minutes, output_files>>

\* process_meeting calling generate_minutes before it has called transcribe
SummarizeBeforeTranscribing(r, outs) ==
    /\ Starts(r, "processed", "generate_minutes")
    /\ LET got == generate_minutes(summarizer[r],
                      MeetingData(MeetingTitle(r), FormDate, FormParticipants, DemoTranscript),
                      MaxSummaryLength, outs)
       IN  /\ minutes' = [minutes EXCEPT ![r] = got]
           /\ Goes(r, "summarized")
    /\ UNCHANGED <<files, temp_path, processed_audio, summarizer, transcript, output_files>>

\* summarizer.generate_minutes(meeting_data, max_summary_length)
SummarizeMeeting(r, outs) ==
    /\ Starts(r, "transcribed", "generate_minutes")
    /\ LET got == generate_minutes(summarizer[r],
                      MeetingData(MeetingTitle(r), FormDate, FormParticipants, transcript[r]),
                      MaxSummaryLength, outs)
       IN  IF got.status = "returned"
           THEN /\ minutes' = [minutes EXCEPT ![r] = got]
                /\ Goes(r, "summarized")
           ELSE /\ UNCHANGED minutes
                /\ Raises(r, "generate_minutes", <<>>)
    /\ UNCHANGED <<files, temp_path, processed_audio, summarizer, transcript, output_files>>

\* output_generator.generate_outputs(minutes, output_formats)
ExportMinutes(r, outcome) ==
    /\ Starts(r, "summarized", "generate_outputs")
    /\ IF outcome = "ok"
       THEN /\ output_files' = [output_files EXCEPT ![r] =
                                    generate_outputs(minutes[r].minutes, OutputFormats)]
            /\ Goes(r, "exported")
       ELSE /\ UNCHANGED output_files
            /\ Raises(r, "generate_outputs", <<"Error generating outputs">>)
    /\ UNCHANGED <<files, temp_path, processed_audio, summarizer, transcript, minutes>>

\* display_results(minutes, output_files)
display_results(r, outcome) ==
    /\ Starts(r, "exported", "display_results")
    /\ IF outcome = "ok"
       THEN Goes(r, "displayed")
       ELSE Raises(r, "display_results", <<>>)
    /\ UNCHANGED <<files, temp_path, processed_audio, summarizer, transcript, minutes,
                   output_files>>

\* os.unlink(temp_path), then process_meeting returns
CleanUp(r, outcome) ==
    /\ Starts(r, "displayed", "unlink")
    /\ IF outcome = "ok"
       THEN /\ files' = files \ {temp_path[r]}
            /\ Goes(r, "returned")
       ELSE /\ UNCHANGED files
            /\ Raises(r, "unlink", <<>>)
    /\ UNCHANGED <<temp_path, processed_audio, summarizer, transcript, minutes,
                   output_files>>

MtgNext ==
    \E r \in Requests :
        \/ \E o \in {"ok", "write_fails", "create_fails"} : SaveUpload(r, o)
        \/ \E w \in {"ok", "fails"}, l \in MeetingLoadOutcomes, d \in DatasetOutcomes :
              CreateProcessors(r, w, l, d)
        \/ \E o \in {"ok", "copy_fails", "create_fails"} : process_file(r, o)
        \/ \E o \in {"ok", "fails"} : transcribe(r, o)
        \/ \E outs \in MeetingOuts : SummarizeMeeting(r, outs)
        \/ \E o \in {"ok", "fails"} : ExportMinutes(r, o)
        \/ \E o \in {"ok", "fails"} : display_results(r, o)
        \/ \E o \in {"ok", "fails"} : CleanUp(r, o)

\* ------------------------------------------------ callers of the components
\* The record test_output_generation exports
TestMinutes ==
    [meeting_info |-> [title |-> "Test Meeting", date |-> "2024-01-15",
                       participants |-> << <<"Alice">>, <<"Bob">> >>,
                       duration |-> "30 minutes"],
     summary |-> <<"Test summary">>,
     key_decisions |-> << <<"Decision 1">>, <<"Decision 2">> >>,
     action_items |-> << [task |-> <<"Task 1">>, assignee |-> <<"Alice">>,
                          due_date |-> <<"Next week">>] >>,
     next_steps |-> << <<"Step 1">>, <<"Step 2">> >>,
     full_transcript |-> <<"Test transcript">>]

\* Text with the characters a JSON string literal escapes or delimits with
QuotedText == <<"a", "\"", "b", "\\", "n", "\n", "{", ",", "]", " ", ":">>

\* Records generate_outputs can be given
ExportRecords ==
    {TestMinutes,
     _generate_demo_minutes(StdMeeting(TranscriptDict(ShortText)), 500).minutes,
     [TestMinutes EXCEPT !.summary = QuotedText,
                         !.key_decisions = <<QuotedText, <<>>, <<"\\", "\"">> >>,
                         !.action_items = << [task |-> QuotedText], [assignee |-> <<"\n">>] >>,
                         !.full_transcript = <<"\"">>],
     [TestMinutes EXCEPT !.key_decisions = <<>>, !.action_items = <<>>,
                         !.next_steps = <<>>,
                         !.meeting_info = [title |-> "Test Meeting"]],
     [TestMinutes EXCEPT !.meeting_info.date = "datetime.date(2024, 1, 15)"],
     [summary |-> <<"Test summary">>],
     NoDict}

FormatNames == {"JSON", "HTML", "PDF", "UNKNOWN"}
FormatLists == UNION {[1..n -> FormatNames] : n \in 0..MaxFormats}

NoValue == [t |-> "none", v |-> <<>>]

ExportIdle ==
    /\ xpc = "idle"
    /\ export_minutes = NoDict
    /\ export_formats = <<>>
    /\ outputs = NoOutputs
    /\ json_data = NoValue

ExportInit ==
    /\ xpc = "start"
    /\ export_minutes \in ExportRecords
    /\ export_formats \in FormatLists
    /\ outputs = NoOutputs
    /\ json_data = NoValue

\* outputs = generator.generate_outputs(test_minutes, formats)
CallGenerateOutputs ==
    /\ xpc = "start"
    /\ outputs' = generate_outputs(export_minutes, export_formats)
    /\ xpc' = outputs'.status
    /\ UNCHANGED <<export_minutes, export_formats, json_data>>
    /\ UNCHANGED <<genVars, mtgVars, audioVars, evalVars>>

\* json_data = json.loads(outputs['JSON'].decode('utf-8'))
DecodeJson ==
    /\ xpc = "returned"
    /\ "JSON" \in DOMAIN outputs.outputs
    /\ json_data' = json_loads(outputs.outputs["JSON"])
    /\ xpc' = "decoded"
    /\ UNCHANGED <<export_minutes, export_formats, outputs>>
    /\ UNCHANGED <<genVars, mtgVars, audioVars, evalVars>>

ExportNext == CallGenerateOutputs \/ DecodeJson

\* ---- AudioProcessor
\* Extensions as callers write them, with and without the dot's companions
Extensions ==
    {supported_formats[i] : i \in 1..Len(supported_formats)}
    \cup {<<".", "M", "P", "3">>, <<".", "W", "a", "V">>, <<".", "M", "K", "V">>,
          <<".", "t", "x", "t">>, <<".", "m", "p">>, <<".", "m", "p", "3", "x">>,
          <<".", "w", "a", "v", " ">>, <<".", "p", "d", "f">>}

AudioPaths ==
    UNION {{<<"t", "e", "s", "t">> \o e,
            e,
            <<"/", "t", "m", "p", "/", "a", ".", "b">> \o e,
            <<"d">> \o e \o <<"/", "f">>,
            <<"f">> \o e \o <<"/">>,
            <<"f">> \o e \o <<".">>} : e \in Extensions}
    \cup {<<"f">>, <<"m", "p", "3">>, <<"f", ".">>}

\* The name tempfile.NamedTemporaryFile(suffix='.wav') hands out
TempWav == <<"/", "t", "m", "p", "/", "t", "m", "p", "0", ".", "w", "a", "v">>

NoPath == [status |-> "none", path |-> <<>>]

AudioIdle ==
    /\ apc = "idle"
    /\ file_path = <<>>
    /\ is_valid = FALSE
    /\ output_path = NoPath
    /\ audio_files = {}

AudioInit ==
    /\ apc = "start"
    /\ file_path \in AudioPaths
    /\ is_valid = FALSE
    /\ output_path = NoPath
    /\ audio_files = {file_path}

\* processor.validate_file(path)
CallValidateFile ==
    /\ apc = "start"
    /\ is_valid' = validate_file(file_path)
    /\ apc' = "validated"
    /\ UNCHANGED <<file_path, output_path, audio_files>>
    /\ UNCHANGED <<genVars, mtgVars, exportVars, evalVars>>

\* processor.process_file(path): the temporary file is created, the input is
\* copied over it and its name is returned; either step can raise
CallProcessFile(outcome) ==
    /\ apc \in {"start", "validated"}
    /\ CASE outcome = "ok" ->
              /\ audio_files' = audio_files \cup {TempWav}
              /\ output_path' = [status |-> "returned", path |-> TempWav]
         [] outcome = "copy_fails" ->
              /\ audio_files' = audio_files \cup {TempWav}
              /\ output_path' = [status |-> "raised", path |-> <<>>]
         [] OTHER ->
              /\ UNCHANGED audio_files
              /\ output_path' = [status |-> "raised", path |-> <<>>]
    /\ apc' = "processed"
    /\ UNCHANGED <<file_path, is_valid>>
    /\ UNCHANGED <<genVars, mtgVars, exportVars, evalVars>>

AudioNext ==
    \/ CallValidateFile
    \/ \E o \in {"ok", "copy_fails", "create_fails"} : CallProcessFile(o)

\* ---- Evaluator
EvalWords == {<<"a">>, <<"b">>, <<"A">>}

\* Up to MaxWords words a blank apart, and texts whose blanks vary
EvalTexts ==
    {Join(ws, " ") : ws \in UNION {[1..n -> EvalWords] : n \in 0..MaxWords}}
    \cup {<<" ">>, <<" ", "a", " ", " ", "b", "\n">>, <<"a", "b">>,
          <<"a", "b", " ", "a", "B">>, <<"a", " ", "b", " ", "c">>}

NoMetrics == [k \in {} |-> Zero]

EvalIdle ==
    /\ reference = <<>>
    /\ hypothesis = <<>>
    /\ trans_metrics = NoMetrics
    /\ sum_metrics = NoMetrics

EvalInit ==
    /\ reference \in EvalTexts
    /\ hypothesis \in EvalTexts
    /\ trans_metrics = NoMetrics
    /\ sum_metrics = NoMetrics

\* trans_metrics = evaluator.evaluate_transcription(reference, hypothesis)
CallEvaluateTranscription ==
    /\ trans_metrics = NoMetrics
    /\ trans_metrics' = evaluate_transcription(reference, hypothesis)
    /\ UNCHANGED <<reference, hypothesis, sum_metrics>>
    /\ UNCHANGED <<genVars, mtgVars, exportVars, audioVars>>

\* sum_metrics = evaluator.evaluate_summarization(reference, hypothesis)
CallEvaluateSummarization ==
    /\ sum_metrics = NoMetrics
    /\ sum_metrics' = evaluate_summarization(reference, hypothesis)
    /\ UNCHANGED <<reference, hypothesis, trans_metrics>>
    /\ UNCHANGED <<genVars, mtgVars, exportVars, audioVars>>

EvalNext == CallEvaluateTranscription \/ CallEvaluateSummarization

vars == <<genVars, mtgVars, toolVars>>

\* A caller that constructs one MeetingSummarizer and calls generate_minutes
\* on it again and again
Init == GenInit /\ MtgInit /\ ExportIdle /\ AudioIdle /\ EvalIdle
Next == GenNext
Spec == Init /\ [][Next]_vars

\* Requests running process_meeting, each in its own session
MeetingInit == GenInit /\ profile = "inputs" /\ MtgInit /\ ExportIdle /\ AudioIdle /\ EvalIdle
MeetingNext == MtgNext
SpecMeeting == MeetingInit /\ [][MeetingNext]_vars

\* A caller of OutputGenerator.generate_outputs that decodes the JSON payload
InitExport == GenInit /\ profile = "inputs" /\ MtgInit /\ ExportInit /\ AudioIdle /\ EvalIdle
SpecExport == InitExport /\ [][ExportNext]_vars

\* A caller of AudioProcessor.validate_file and process_file
InitAudio == GenInit /\ profile = "inputs" /\ MtgInit /\ ExportIdle /\ AudioInit /\ EvalIdle
SpecAudio == InitAudio /\ [][AudioNext]_vars

\* A caller of the Evaluator's two evaluations
InitEvaluator == GenInit /\ profile = "inputs" /\ MtgInit /\ ExportIdle /\ AudioIdle /\ EvalInit
SpecEvaluator == InitEvaluator /\ [][EvalNext]_vars

\* ================================================================== claims
\* The instance states section 4.3 of the specification calls Unavailable and
\* Ready, read off the instance's fields
Unavailable(inst) == inst.model = "demo_mode" \/ inst.pipeline = "None"
Ready(inst) == inst.model = "llm" /\ inst.pipeline = "pipeline"

LateStages == {"generate_minutes", "generate_outputs", "display_results"}
StagesOf(r) == {stages[r][i] : i \in 1..Len(stages[r])}
ErrorsOf(r) == {errors[r][i] : i \in 1..Len(errors[r])}

\* The outcome of the pipeline call made for field f in the current call
OutFor(f) == OutsOf(calls)[f]
Called == [i \in 1..Len(calls) |-> calls[i].field]

\* C1: once process_meeting has returned, the temporary normalized-audio file
\* that AudioProcessor.process_file created for the request no longer exists.
C1_AudioFileGoneAfterReturn ==
    \A r \in Requests : ppc[r] = "returned" => AudioFile(r) \notin files

\* C2: when process_file or transcribe raises, the request is aborted: no
\* later stage runs, no transcript is substituted, nothing is produced, and
\* the failure is shown to the user.
C2_ConversionFailureAborts ==
    \A r \in Requests :
        failed[r] \in {"process_file", "transcribe"} =>
            /\ ppc[r] = "returned"
            /\ stages[r][Len(stages[r])] = failed[r]
            /\ StagesOf(r) \cap LateStages = {}
            /\ transcript[r] = NoneValue
            /\ minutes[r] = NoResult
            /\ output_files[r] = NoOutputs
            /\ "Error processing meeting" \in ErrorsOf(r)
            /\ failed[r] = "process_file" => "Error processing audio file" \in ErrorsOf(r)
            /\ failed[r] = "transcribe" => "Error during transcription" \in ErrorsOf(r)

C2_Witness ==
    \E r, q \in Requests :
        /\ failed[r] = "process_file" /\ ppc[r] = "returned"
        /\ failed[q] = "transcribe" /\ ppc[q] = "returned"

\* C3: with a transcript that is a mapping, generate_minutes never raises,
\* whatever the model load and the four pipeline calls did: it hands back a
\* minutes record.
C3_GenerateMinutesNeverRaises ==
    (gpc \notin {"new", "idle"} /\ TranscriptReadable(meeting_data)) =>
        /\ gpc # "raised"
        /\ result.status # "raised"
        /\ gpc = "returned" => result.status = "returned"

C3_Witness ==
    /\ gpc = "returned"
    /\ Ready(self)
    /\ Len(calls) = 4
    /\ \A i \in 1..4 : ~calls[i].out.ok

\* C4: an instance whose _load_model failed stays Unavailable for good: it is
\* never Ready again, and each generate_minutes call on it takes the demo path
\* (no pipeline call, the demo record).
C4_LoadFailureIsPermanent ==
    (gpc # "new" /\ loaded.model = "demo_mode") =>
        /\ self.model = "demo_mode"
        /\ Unavailable(self)
        /\ gpc \notin FieldSet
        /\ calls = <<>>
        /\ gpc = "returned" => result = _generate_demo_minutes(meeting_data, max_length)

C4_Witness ==
    /\ loaded.model = "demo_mode"
    /\ gpc = "returned"
    /\ prev.set

\* C5: on a Ready instance a failed pipeline call changes only its own field
\* of the record, which takes the demo value; the instance is left as it was,
\* every call of generate_minutes makes all four pipeline calls, and the
\* fields whose calls succeeded are parsed from their own responses.
C5_CallFailureIsLocal ==
    (gpc # "new" /\ Ready(loaded)) =>
        /\ self = loaded
        /\ gpc = "returned" =>
            LET m == result.minutes
                t == TranscriptText(meeting_data)
            IN  /\ Called = Fields
                /\ m.summary =
                     IF OutFor("summary").ok
                     THEN _generate_llm_summary(t, max_length, OutFor("summary"))
                     ELSE _generate_demo_summary(t, max_length)
                /\ m.key_decisions =
                     IF OutFor("key_decisions").ok
                     THEN _extract_llm_decisions(t, OutFor("key_decisions"))
                     ELSE _extract_demo_decisions(t)
                /\ m.action_items =
                     IF OutFor("action_items").ok
                     THEN _extract_llm_action_items(t, OutFor("action_items"))
                     ELSE _extract_demo_action_items(t)
                /\ m.next_steps =
                     IF OutFor("next_steps").ok
                     THEN _extract_llm_next_steps(t, OutFor("next_steps"))
                     ELSE _extract_demo_next_steps(t)

C5_Witness ==
    /\ gpc = "returned"
    /\ Ready(self)
    /\ Len(calls) = 4
    /\ ~calls[2].out.ok
    /\ \A i \in {1, 3, 4} : calls[i].out.ok
    /\ result.minutes.key_decisions = _extract_demo_decisions(<<>>)
    /\ result.minutes.next_steps # _extract_demo_next_steps(<<>>)

\* C6: an Unavailable instance makes no pipeline call, and generate_minutes
\* returns the canned summary, the two canned decisions, the two canned action
\* items and the three canned next steps, with the computed duration.
C6_UnavailableReturnsCanned ==
    (gpc # "new" /\ Unavailable(self)) =>
        /\ gpc \notin FieldSet
        /\ calls = <<>>
        /\ gpc = "returned" =>
            LET m == result.minutes
            IN  /\ m.summary = _generate_demo_summary(<<>>, 0)
                /\ m.key_decisions = _extract_demo_decisions(<<>>) /\ Len(m.key_decisions) = 2
                /\ m.action_items = _extract_demo_action_items(<<>>) /\ Len(m.action_items) = 2
                /\ m.next_steps = _extract_demo_next_steps(<<>>) /\ Len(m.next_steps) = 3
                /\ m.meeting_info.duration = _estimate_duration(TranscriptText(meeting_data))

C6_Witness ==
    /\ Unavailable(self)
    /\ gpc = "returned"
    /\ words = 450
    /\ result.minutes.meeting_info.duration = "3 minutes"

\* C7: in demo mode two calls with equal meeting_data return equal records,
\* whatever max_length each was given and whatever was called in between;
\* summary, decisions, action items and next steps are the same for every
\* transcript.
C7_DemoModeDeterministic ==
    (prev.set /\ Unavailable(self) /\ gpc = "returned") =>
        /\ prev.input.meeting_data = meeting_data => prev.result = result
        /\ prev.result.minutes.summary = result.minutes.summary
        /\ prev.result.minutes.key_decisions = result.minutes.key_decisions
        /\ prev.result.minutes.action_items = result.minutes.action_items
        /\ prev.result.minutes.next_steps = result.minutes.next_steps

C7_Witness ==
    /\ prev.set /\ Unavailable(self) /\ gpc = "returned"
    /\ prev.input.meeting_data = meeting_data
    /\ prev.input.max_length # max_length

\* C8: every record generate_minutes returns holds all six fields, and its
\* meeting_info holds title, date, participants and duration; a list may be
\* empty but is there.
C8_AllFieldsPresent ==
    gpc = "returned" =>
        /\ DOMAIN result.minutes =
             {"meeting_info", "summary", "key_decisions", "action_items",
              "next_steps", "full_transcript"}
        /\ DOMAIN result.minutes.meeting_info =
             {"title", "date", "participants", "duration"}

C8_Witness ==
    /\ gpc = "returned"
    /\ Ready(self)
    /\ calls[2].out.ok
    /\ ~calls[3].out.ok
    /\ result.minutes.key_decisions = <<>>

\* C9: key_decisions, action_items and next_steps of a returned record have at
\* most 5 entries each, however many lines the backend answered.
C9_ListsCapped ==
    gpc = "returned" =>
        /\ Len(result.minutes.key_decisions) <= 5
        /\ Len(result.minutes.action_items) <= 5
        /\ Len(result.minutes.next_steps) <= 5

C9_Witness ==
    /\ gpc = "returned"
    /\ Ready(self)
    /\ calls[2].out = Ok(<<"\n">> \o Join([i \in 1..6 |-> <<" ", "a", " ">>], "\n"))
    /\ Len(result.minutes.key_decisions) = 5

\* C10: for a transcript of w words the duration is "<N> minutes" with
\* N = max(1, floor(w / 150)), on the LLM path and on the demo path alike
\* (450 words: 3, 300 words: 2, 1 or 0 words: 1).
MinutesFor(w) ==
    IF w < 150 THEN 1
    ELSE CHOOSE n \in 1..w : 150 * n <= w /\ w < 150 * (n + 1)

C10_DurationFromWordCount ==
    gpc = "returned" =>
        LET d == result.minutes.meeting_info.duration
        IN  /\ d = ToString(MinutesFor(words)) \o " minutes"
            /\ words = 450 => d = "3 minutes"
            /\ words = 300 => d = "2 minutes"
            /\ words \in {0, 1} => d = "1 minutes"

C10_Witness ==
    /\ gpc = "returned"
    /\ Ready(self)
    /\ words = 450
    /\ result.minutes.meeting_info.duration = "3 minutes"

\* ---- OutputGenerator
Requested == {export_formats[i] : i \in 1..Len(export_formats)}
Exported == xpc \in {"returned", "raised", "decoded"}

\* A renderer the request reaches raises for the record
RendererRaises ==
    \E i \in 1..Len(export_formats) :
        /\ export_formats[i] \in {"JSON", "HTML", "PDF"}
        /\ ~Render(export_formats[i], export_minutes).ok

\* C11: generate_outputs returns a mapping whose keys are exactly the
\* requested identifiers among JSON, HTML and PDF; an identifier it does not
\* know is skipped and never makes the call raise, so a request of unknown
\* identifiers only returns the empty mapping.
C11_KeysAreKnownRequests ==
    Exported =>
        /\ outputs.status = "returned" =>
               DOMAIN outputs.outputs = Requested \cap {"JSON", "HTML", "PDF"}
        /\ outputs.status = "raised" => RendererRaises
        /\ Requested \cap {"JSON", "HTML", "PDF"} = {} =>
               outputs.status = "returned" /\ DOMAIN outputs.outputs = {}

C11_Witness ==
    /\ xpc = "returned"
    /\ export_formats = <<"UNKNOWN", "PDF", "UNKNOWN">>
    /\ DOMAIN outputs.outputs = {"PDF"}

\* C12: when a renderer raises, generate_outputs raises too: the caller gets
\* no bundle, not even the payloads rendered before the failure, and the
\* export error has been shown.
C12_RendererFailureAbortsExport ==
    (Exported /\ RendererRaises) =>
        /\ outputs.status = "raised"
        /\ DOMAIN outputs.outputs = {}
        /\ outputs.shown # <<>>
        /\ outputs.shown[Len(outputs.shown)] = "Error generating outputs"
        /\ json_data = NoValue

C12_Witness ==
    /\ xpc = "raised"
    /\ export_formats = <<"HTML", "PDF", "JSON">>
    /\ _generate_html(export_minutes).ok

\* C13: decoding the JSON payload gives back the record: the same title, the
\* same key decisions and action items in the same order, and every other
\* entry as well.
C13_JsonRoundTrips ==
    xpc = "decoded" =>
        /\ json_data = PyValue(export_minutes)
        /\ json_data.k = KeysOf(export_minutes, MinutesKeys)
        /\ \A i \in 1..Len(json_data.k) :
               json_data.k[i] \in {"key_decisions", "action_items"} =>
                   Len(json_data.v[i].v) = Len(export_minutes[json_data.k[i]])

C13_Witness ==
    /\ xpc = "decoded"
    /\ "summary" \in DOMAIN export_minutes
    /\ export_minutes.summary = QuotedText
    /\ Len(export_minutes.key_decisions) = 3

\* ---- AudioProcessor
ExtensionNames ==
    {<<"m", "p", "3">>, <<"w", "a", "v">>, <<"m", "p", "4">>, <<"a", "v", "i">>,
     <<"m", "o", "v">>, <<"m", "k", "v">>}

\* The final component of the path has an extension: a dot with characters
\* on both sides
HasExtension(path) ==
    \E i \in 2..(Len(PathName(path)) - 1) : PathName(path)[i] = "."

\* C14: validate_file returns true exactly when the final extension of the
\* path, lower-cased, is one of mp3, wav, mp4, avi, mov, mkv; false for any
\* other extension and for a path without one.
C14_ValidateFileBySuffix ==
    apc = "validated" =>
        (is_valid <=> /\ HasExtension(file_path)
                      /\ Lower(AfterLast(PathName(file_path), ".")) \in ExtensionNames)

C14_Witness ==
    /\ apc = "validated"
    /\ file_path = <<"t", "e", "s", "t", ".", "W", "a", "V">>
    /\ is_valid

\* C15: process_file given a path whose extension is not supported raises
\* and leaves no normalized audio file behind.
C15_UnsupportedFileRejected ==
    (apc = "processed" /\ ~validate_file(file_path)) =>
        /\ output_path.status = "raised"
        /\ TempWav \notin audio_files

\* ---- Evaluator
\* Scores compared as the numbers they are
SameScore(p, q) == p[1] * q[2] = q[1] * p[2]
InUnitRange(q) == q[2] > 0 /\ 0 <= q[1] /\ q[1] <= q[2]

DistinctWords(text) == SetOf(SplitWords(Lower(text)))
DistinctPairs(text) ==
    LET ws == SplitWords(Lower(text))
    IN  {<<ws[i], ws[i + 1]>> : i \in 1..(Len(ws) - 1)}

\* C16: word_error_rate is clamp(1 - C/R, 0, 1) with C the number of distinct
\* lower-case words common to both texts and R the number of distinct
\* lower-case words of the reference; with no reference words it is 1 when
\* the hypothesis has words and 0 otherwise.
C16_WerOverDistinctWords ==
    trans_metrics # NoMetrics =>
        LET R == Cardinality(DistinctWords(reference))
            C == Cardinality(DistinctWords(reference) \cap DistinctWords(hypothesis))
        IN  IF R = 0
            THEN SameScore(trans_metrics.word_error_rate,
                           IF DistinctWords(hypothesis) # {} THEN One ELSE Zero)
            ELSE SameScore(trans_metrics.word_error_rate, Clamp(<<R - C, R>>))

\* C17: a text evaluated against itself has word_error_rate 0 and accuracy 1,
\* and accuracy is always 1 - word_error_rate.
C17_IdenticalTextIsPerfect ==
    trans_metrics # NoMetrics =>
        /\ SameScore(trans_metrics.accuracy, OneMinus(trans_metrics.word_error_rate))
        /\ reference = hypothesis =>
               /\ SameScore(trans_metrics.word_error_rate, Zero)
               /\ SameScore(trans_metrics.accuracy, One)

\* C18: each of the eight scores of evaluate_transcription and
\* evaluate_summarization lies between 0 and 1.
C18_ScoresInUnitRange ==
    /\ \A k \in DOMAIN trans_metrics : InUnitRange(trans_metrics[k])
    /\ \A k \in DOMAIN sum_metrics : InUnitRange(sum_metrics[k])

C18_Witness ==
    /\ DOMAIN trans_metrics =
           {"word_error_rate", "character_error_rate", "bleu_score", "accuracy"}
    /\ DOMAIN sum_metrics = {"rouge_1", "rouge_2", "rouge_l", "semantic_similarity"}
    /\ reference = <<"a">>
    /\ hypothesis = <<"a", " ", "A", " ", "b">>

\* C19: rouge_2 is the number of distinct lower-case consecutive word pairs
\* common to both texts divided by the number of distinct word pairs of the
\* reference, and 0 when the reference has fewer than two words.
C19_Rouge2OverDistinctPairs ==
    sum_metrics # NoMetrics =>
        LET ref_pairs == DistinctPairs(reference)
            common == ref_pairs \cap DistinctPairs(hypothesis)
        IN  IF Len(SplitWords(reference)) < 2
            THEN SameScore(sum_metrics.rouge_2, Zero)
            ELSE SameScore(sum_metrics.rouge_2,
                           <<Cardinality(common), Cardinality(ref_pairs)>>)

\* C20: rouge_1 is the number of distinct lower-case words common to both
\* texts divided by the number of distinct lower-case words of the reference
\* ("a b c" against "a b" gives 2/3), and 0 when the reference has no words.
C20_Rouge1OverDistinctWords ==
    sum_metrics # NoMetrics =>
        LET R == Cardinality(DistinctWords(reference))
            C == Cardinality(DistinctWords(reference) \cap DistinctWords(hypothesis))
        IN  /\ IF R = 0 THEN SameScore(sum_metrics.rouge_1, Zero)
               ELSE SameScore(sum_metrics.rouge_1, <<C, R>>)
            /\ (reference = <<"a", " ", "b", " ", "c">> /\ hypothesis = <<"a", " ", "b">>)
                   => SameScore(sum_metrics.rouge_1, <<2, 3>>)

C20_Witness ==
    /\ sum_metrics # NoMetrics
    /\ reference = <<"a", " ", "b", " ", "c">>
    /\ hypothesis = <<"a", " ", "b">>

\* C21: the rouge_l and semantic_similarity of a result both equal its
\* rouge_1.
C21_RougeLAndSimilarityAreRouge1 ==
    sum_metrics # NoMetrics =>
        /\ sum_metrics.rouge_l = sum_metrics.rouge_1
        /\ sum_metrics.semantic_similarity = sum_metrics.rouge_1

C21_Witness ==
    /\ sum_metrics # NoMetrics
    /\ reference = <<"a", " ", "b">>
    /\ hypothesis = <<"b", " ", "a">>
    /\ ~SameScore(sum_metrics.rouge_1, sum_metrics.rouge_2)

\* ---- OutputGenerator, the plain document
\* `part` occurs in `text`
Contains(text, part) ==
    \/ part = <<>>
    \/ \E i \in 1..(Len(text) - Len(part) + 1) : SubSeq(text, i, i + Len(part) - 1) = part

\* C22: the PDF payload starts with "Meeting Minutes: <title>" and has the
\* sections of the HTML payload: the meeting info, the summary, every key
\* decision, every action item, every next step and the full transcript.
C22_PdfHasHtmlSections ==
    (Exported /\ "PDF" \in DOMAIN outputs.outputs) =>
        LET pdf == outputs.outputs["PDF"]
            info == DictGet(export_minutes, "meeting_info", NoDict)
            decisions == DictGet(export_minutes, "key_decisions", <<>>)
            items == DictGet(export_minutes, "action_items", <<>>)
            steps == DictGet(export_minutes, "next_steps", <<>>)
        IN  /\ SubSeq(pdf, 1, 2) =
                   <<"Meeting Minutes: ", StrOf(DictGet(info, "title", "Meeting"))>>
            /\ Contains(pdf, <<"Date: ", StrOf(DictGet(info, "date", ""))>>)
            /\ Contains(pdf, DictGet(export_minutes, "summary", <<>>))
            /\ \A i \in 1..Len(decisions) : Contains(pdf, decisions[i])
            /\ \A i \in 1..Len(items) : Contains(pdf, DictGet(items[i], "task", <<>>))
            /\ \A i \in 1..Len(steps) : Contains(pdf, steps[i])
            /\ Contains(pdf, DictGet(export_minutes, "full_transcript", <<>>))

\* ---- process_meeting, stage by stage
StageOrder ==
    <<"save_upload", "create_processors", "process_file", "transcribe",
      "generate_minutes", "generate_outputs", "display_results", "unlink">>

\* C23: within a request the stages run in the order conversion,
\* transcription, generation, export, each at most once and only after the
\* one before has returned its value; generation is given the request's own
\* transcript and export the request's own record.
C23_StagesRunInOrder ==
    \A r \in Requests :
        /\ stages[r] = SubSeq(StageOrder, 1, Len(stages[r]))
        /\ "transcribe" \in StagesOf(r) => processed_audio[r] = AudioFile(r)
        /\ "generate_minutes" \in StagesOf(r) => transcript[r] = DemoTranscript
        /\ "generate_outputs" \in StagesOf(r) => minutes[r].status = "returned"
        /\ minutes[r] # NoResult =>
               /\ minutes[r].minutes.full_transcript = transcript[r].text
               /\ minutes[r].minutes.meeting_info.title = MeetingTitle(r)
        /\ ppc[r] = "exported" =>
               output_files[r] = generate_outputs(minutes[r].minutes, OutputFormats)

C23_Witness ==
    \E r \in Requests :
        /\ stages[r] = StageOrder
        /\ ppc[r] = "returned"
        /\ failed[r] = "none"
        /\ DOMAIN output_files[r].outputs = {"JSON", "HTML"}

\* Each request has its own temporary files
OwnFiles ==
    \A r \in Requests :
        /\ temp_path[r] \in {NoFile, UploadFile(r)}
        /\ processed_audio[r] \in {NoFile, AudioFile(r)}
        /\ \A q \in Requests \ {r} :
               {UploadFile(r), AudioFile(r)} \cap {UploadFile(q), AudioFile(q)} = {}

\* What a stage has just returned to a request is what the request's own
\* instance makes of the request's own data
OwnResults ==
    \A r \in Requests :
        /\ ppc[r] = "summarized" =>
               \E outs \in MeetingOuts :
                   minutes[r] =
                       generate_minutes(summarizer[r],
                                        MeetingData(MeetingTitle(r), FormDate,
                                                    FormParticipants, DemoTranscript),
                                        MaxSummaryLength, outs)
        /\ ppc[r] = "exported" =>
               output_files[r] = generate_outputs(minutes[r].minutes, OutputFormats)

\* A record or a bundle a request holds stays as the stage returned it
Kept(q) ==
    /\ minutes[q] # NoResult => minutes'[q] = minutes[q]
    /\ output_files[q] # NoOutputs => output_files'[q] = output_files[q]

\* A step that is not request q's leaves q's locals and q's files as they were
Untouched(q) ==
    stages'[q] = stages[q] =>
        /\ ppc'[q] = ppc[q]
        /\ temp_path'[q] = temp_path[q]
        /\ processed_audio'[q] = processed_audio[q]
        /\ summarizer'[q] = summarizer[q]
        /\ transcript'[q] = transcript[q]
        /\ minutes'[q] = minutes[q]
        /\ output_files'[q] = output_files[q]
        /\ errors'[q] = errors[q]
        /\ (UploadFile(q) \in files') = (UploadFile(q) \in files)
        /\ (AudioFile(q) \in files') = (AudioFile(q) \in files)

\* C24: requests whose steps interleave do not interfere: each has its own
\* instances and temporary files, no step of one changes anything of another,
\* and its record and bundle are, and stay, those its own data gives.
C24_RequestsDoNotInterfere ==
    /\ [](OwnFiles /\ OwnResults)
    /\ [][\A q \in Requests : Untouched(q) /\ Kept(q)]_vars

C24_Witness ==
    /\ ppc[1] = "exported"
    /\ ppc[2] = "processed"
    /\ {UploadFile(1), UploadFile(2), AudioFile(1), AudioFile(2)} \subseteq files
    /\ minutes[1].minutes.meeting_info.title # MeetingTitle(2)

\* ---- the LLM extractions
\* The lines of the backend response after the last occurrence of the marker
\* the prompt ends with
ResponseLines(prompt, field, marker) ==
    SplitOn(AfterLast(prompt \o OutFor(field).text, marker), "\n")

ActionItemLines ==
    ResponseLines(ActionItemsPrompt(TranscriptText(meeting_data)), "action_items",
                  "Action Items:")

\* The call for `field` of a returned Ready call came back with a response
Extracted(field) ==
    /\ gpc = "returned"
    /\ Ready(self)
    /\ OutFor(field).ok

\* C25: every extracted action item has task, assignee, due_date and
\* priority, and none of the three defaulted fields is empty: where the line
\* supplies nothing the default stands.
C25_ActionItemFieldsDefaulted ==
    Extracted("action_items") =>
        \A i \in 1..Len(result.minutes.action_items) :
            LET item == result.minutes.action_items[i]
            IN  /\ DOMAIN item = {"task", "assignee", "due_date", "priority"}
                /\ item.assignee # <<>>
                /\ item.due_date # <<>>
                /\ item.priority # <<>>

\* C26: action_items is made of the first five qualifying lines of the
\* response, in order, a line qualifying when it is non-blank and has a dash.
C26_FirstFiveQualifyingLines ==
    Extracted("action_items") =>
        LET Qualifies(line) ==
                (\E i \in 1..Len(line) : line[i] = "-") /\ Strip(line) # <<>>
        IN  result.minutes.action_items =
                MapActionItem(Take(SelectSeq(ActionItemLines, Qualifies), 5))

\* The trimmed lines that are neither blank nor made of digits only
RECURSIVE DecisionLines(_)
DecisionLines(lines) ==
    IF lines = <<>> THEN <<>>
    ELSE (IF Strip(Head(lines)) = <<>> \/ IsDigit(Strip(Head(lines)))
          THEN <<>> ELSE <<Strip(Head(lines))>>)
         \o DecisionLines(Tail(lines))

\* C27: key_decisions is the first five, in order, of the lines after the
\* last "Key Decisions:" marker that are neither blank nor digits only, each
\* trimmed and non-empty.
C27_FirstFiveDecisionLines ==
    Extracted("key_decisions") =>
        LET kept == DecisionLines(
                        ResponseLines(DecisionsPrompt(TranscriptText(meeting_data)),
                                      "key_decisions", "Key Decisions:"))
            got == result.minutes.key_decisions
        IN  /\ got = Take(kept, 5)
            /\ \A i \in 1..Len(got) :
                   /\ got[i] # <<>>
                   /\ got[i][1] \notin Whitespace
                   /\ got[i][Len(got[i])] \notin Whitespace

C27_Witness ==
    /\ Extracted("key_decisions")
    /\ Len(result.minutes.key_decisions) = 5
    /\ SubSeq(OutFor("key_decisions").text, 1, 3) = <<"\n", "2", "\n">>

\* C28: next_steps is the first five non-blank lines after the "Next Steps:"
\* marker, each without its leading bullet characters; no entry starts with
\* a bullet character.
C28_NextStepsWithoutBullets ==
    Extracted("next_steps") =>
        LET NonBlank(line) == Strip(line) # <<>>
            lines == SelectSeq(
                         ResponseLines(NextStepsPrompt(TranscriptText(meeting_data)),
                                       "next_steps", "Next Steps:"), NonBlank)
            got == result.minutes.next_steps
        IN  /\ Len(got) = IF Len(lines) < 5 THEN Len(lines) ELSE 5
            /\ \A i \in 1..Len(got) :
                   /\ got[i] = <<>> \/ got[i][1] \notin BulletChars
                   /\ got[i] = LStrip(Strip(lines[i]), BulletChars)
                   /\ \E n \in 0..Len(Strip(lines[i])) :
                          /\ got[i] = SubSeq(Strip(lines[i]), n + 1, Len(Strip(lines[i])))
                          /\ \A j \in 1..n : Strip(lines[i])[j] \in BulletChars

C28_Witness ==
    /\ Extracted("next_steps")
    /\ Len(result.minutes.next_steps) = 5
    /\ result.minutes.next_steps[1] = <<" ", "a">>
    /\ SubSeq(OutFor("next_steps").text, 1, 4) = <<"\n", "-", " ", "a">>

\* C29: a call on a Ready instance makes exactly four pipeline calls, for
\* the summary, the key decisions, the action items and the next steps; no
\* field depends on the outcome of another's call; and nothing is returned
\* while a call is still to be made.
C29_FourIndependentCalls ==
    /\ gpc \in FieldSet =>
           /\ result = NoResult
           /\ Len(calls) < Len(Fields)
           /\ gpc = Fields[Len(calls) + 1]
           /\ Called = SubSeq(Fields, 1, Len(calls))
    /\ (gpc = "returned" /\ Ready(self)) =>
           /\ Len(calls) = 4
           /\ Called = Fields
           /\ \A f \in FieldSet :
                  result.minutes[f] =
                      LlmMinutes(meeting_data, max_length,
                                 [g \in FieldSet |-> IF g = f THEN OutFor(f) ELSE Fail])[f]

C29_Witness ==
    /\ gpc = "returned"
    /\ Ready(self)
    /\ Len(calls) = 4
    /\ ~calls[1].out.ok
    /\ ~calls[3].out.ok
    /\ calls[2].out.ok
    /\ calls[4].out.ok

\* C30: the temporary copy of the upload is gone on every exit of
\* process_meeting, also when a constructor, a stage or display_results
\* raised.
C30_UploadCopyGoneAfterReturn ==
    \A r \in Requests : ppc[r] = "returned" => UploadFile(r) \notin files

====
